---- MODULE Spec2Model ----
(***************************************************************************)
(* Model of the playlist downloader (src/src/main.py, src/src/metadata.py).*)
(*                                                                         *)
(* Strings are sequences of characters (a multi-letter word that is never  *)
(* split, such as "Music", is one character).  A path is the sequence of   *)
(* its names from the root; a name is a string.  The file system is the    *)
(* set of directories, the set of plain files outside the destination, and *)
(* the media files of the destination directory.                           *)
(***************************************************************************)
EXTENDS Integers, Sequences, FiniteSets, TLC

\* Longest playlist enumerated.
MaxItems == 3
\* Number of times the program is run in a row on the same file system.
MaxRuns == 2

----------------------------------------------------------------------------
(* Strings and paths (pathlib, pathvalidate) *)

SEP == "/"
TILDE == "~"

\* Characters that pathvalidate's sanitize_filename removes.
InvalidChars == {":", "/", "?"}

RECURSIVE Sanitize(_)
Sanitize(s) ==
    IF s = <<>> THEN <<>>
    ELSE IF Head(s) \in InvalidChars THEN Sanitize(Tail(s))
         ELSE <<Head(s)>> \o Sanitize(Tail(s))

\* str.startswith("~")
StartsWithTilde(s) == s # <<>> /\ Head(s) = TILDE

\* str.removeprefix("~")
RemovePrefixTilde(s) == IF StartsWithTilde(s) THEN Tail(s) ELSE s

\* The names of the string s: the maximal runs of non-separator characters.
RECURSIVE SplitNames(_, _)
SplitNames(s, cur) ==
    IF s = <<>> THEN (IF cur = <<>> THEN <<>> ELSE <<cur>>)
    ELSE IF Head(s) = SEP
         THEN (IF cur = <<>> THEN <<>> ELSE <<cur>>) \o SplitNames(Tail(s), <<>>)
         ELSE SplitNames(Tail(s), cur \o <<Head(s)>>)

\* pathlib.Path(s): absolute when s begins with the separator.
PurePath(s) ==
    [absolute |-> (s # <<>> /\ Head(s) = SEP), parts |-> SplitNames(s, <<>>)]

\* base / p for an absolute base: an absolute right operand replaces the base.
JoinPath(base, p) == IF p.absolute THEN p.parts ELSE base \o p.parts

Home == << <<"home">> >>
Cwd == << <<"cwd">> >>
Root == <<>>

\* The proper ancestors of a path, and the path with all of them.
Ancestors(p) == {SubSeq(p, 1, k) : k \in 0..(Len(p) - 1)}
WithAncestors(p) == Ancestors(p) \cup {p}

----------------------------------------------------------------------------
(* Inputs *)

NoOutput == [given |-> FALSE, text |-> <<>>]
Given(s) == [given |-> TRUE, text |-> s]

\* The forms of the -o argument: unset, home-relative, relative, absolute.
Outputs ==
    {NoOutput,
     Given(<<"~">>), Given(<<"~", "/", "a">>), Given(<<"~", "a">>),
     Given(<<"~", "/", "a", "/", "b">>),
     Given(<<"a">>), Given(<<"a", "/", "b">>),
     Given(<<"/", "a">>), Given(<<"/", "a", "/", "b">>)}

PlaylistTitle == <<"p", ":">>

\* Paths at which the initial file system may hold a plain file or directory.
ObstaclePaths ==
    {Home \o << <<"Music">> >>, Home \o << <<"Videos">> >>,
     Home \o << <<"Music">>, <<"p">> >>, Home \o << <<"Videos">>, <<"p">> >>,
     Home \o << <<"a">> >>, Home \o << <<"a">>, <<"b">> >>,
     Cwd \o << <<"a">> >>, << <<"a">> >>, << <<"a">>, <<"b">> >>}

NoObstacle == [kind |-> "none", path |-> Root]
Obstacles ==
    {NoObstacle} \cup [kind : {"file", "dir"}, path : ObstaclePaths]

\* The videos a playlist is made of: what the stream resolver answers for each.
Video(id, title, secs, size, age, has, audio) ==
    [watch_url |-> id, title |-> title, length |-> secs, size |-> size,
     age_restricted |-> age, has_stream |-> has, includes_audio_track |-> audio]

Videos ==
    {Video(1, <<"s">>, 125, 3, FALSE, TRUE, TRUE),
     Video(2, <<"r">>, 30, 2, TRUE, TRUE, TRUE),
     Video(3, <<"t">>, 7, 2, FALSE, TRUE, FALSE),
     Video(4, <<"n">>, 11, 2, FALSE, FALSE, FALSE),
     Video(5, <<"s", ":">>, 60, 2, FALSE, TRUE, TRUE),
     Video(6, <<"q">>, 45, 2, TRUE, TRUE, TRUE)}

\* Playlists: the resolver lists each video of a playlist once.
Playlists ==
    UNION {{p \in [1..n -> Videos] : \A a, b \in 1..n : p[a] = p[b] => a = b}
           : n \in 0..MaxItems}

----------------------------------------------------------------------------
(* State *)

VARIABLES
    output, file_type, only_audio, playlist,   \* arguments of download_playlist
    dirs, plain, media,                        \* the file system
    pc, raised, dir_path, i,                   \* control state of the run
    total_secs, bytes_downloaded, vids_downloaded, total_bytes,
    age_restricted_urls,
    summaries,                                 \* summaries printed by this run
    log, outcome,                              \* what the run did, per item
    run, prev                                  \* run number, how the last run ended

inputs == <<output, file_type, only_audio, playlist>>
fs == <<dirs, plain, media>>
stats == <<total_secs, bytes_downloaded, vids_downloaded, total_bytes,
           age_restricted_urls>>
vars == <<inputs, fs, pc, raised, dir_path, i, stats, summaries, log, outcome,
          run, prev>>

\* The destination directory holding no media file.
NoMedia == [n \in {} |-> [size |-> 0, tagged |-> FALSE]]

NotRaised == [exc |-> "none", at |-> "none"]
NoPrev == [pc |-> "none", resolved |-> FALSE, dir_path |-> Root]

\* main: -f mp3 forces only_audio; -a sets it.
ArgCombos == {<<"mp4", FALSE>>, <<"mp4", TRUE>>, <<"mp3", TRUE>>}

\* State at entry of download_playlist (every local at its initial value).
RunStart ==
    /\ pc' = "start"
    /\ raised' = NotRaised
    /\ dir_path' = Root
    /\ i' = 1
    /\ total_secs' = 0
    /\ bytes_downloaded' = 0
    /\ vids_downloaded' = 0
    /\ total_bytes' = 0
    /\ age_restricted_urls' = <<>>
    /\ summaries' = 0
    /\ log' = <<>>
    /\ outcome' = [k \in 1..Len(playlist) |-> "pending"]

Init ==
    /\ output \in Outputs
    /\ \E c \in ArgCombos : file_type = c[1] /\ only_audio = c[2]
    /\ playlist \in Playlists
    /\ \E ob \in Obstacles :
         \* the destination cases are explored on the short playlists
         /\ (Len(playlist) <= 1 \/ (ob = NoObstacle /\ output = NoOutput))
         /\ plain = IF ob.kind = "file" THEN {ob.path} ELSE {}
         /\ dirs = {Root, Home, Cwd}
                     \cup (IF ob.kind = "none" THEN {} ELSE Ancestors(ob.path))
                     \cup (IF ob.kind = "dir" THEN {ob.path} ELSE {})
    /\ media = NoMedia
    /\ pc = "start"
    /\ raised = NotRaised
    /\ dir_path = Root
    /\ i = 1
    /\ total_secs = 0
    /\ bytes_downloaded = 0
    /\ vids_downloaded = 0
    /\ total_bytes = 0
    /\ age_restricted_urls = <<>>
    /\ summaries = 0
    /\ log = <<>>
    /\ outcome = [k \in 1..Len(playlist) |-> "pending"]
    /\ run = 1
    /\ prev = NoPrev

Logged(op, item) == log' = Append(log, [op |-> op, item |-> item])

\* An exception leaves download_playlist and reaches main (lines 251-262):
\* DownloadingError prints and exits 1, KeyboardInterrupt prints "Download
\* canceled", anything else is uncaught.
Propagate(exc, at) ==
    /\ raised' = [exc |-> exc, at |-> at]
    /\ pc' = CASE exc = "DownloadingError" -> "exit1"
               [] exc = "KeyboardInterrupt" -> "canceled"
               [] OTHER -> "crashed"

----------------------------------------------------------------------------
(* Destination resolver *)

\* base_dir of line 59
DefaultRoot == Home \o << IF only_audio THEN <<"Music">> ELSE <<"Videos">> >>

\* dir_path as lines 57-72 compute it
ResolvedPath ==
    IF ~output.given
    THEN JoinPath(DefaultRoot, PurePath(Sanitize(PlaylistTitle)))
    ELSE IF StartsWithTilde(output.text)
         THEN JoinPath(Home, PurePath(RemovePrefixTilde(output.text)))
         ELSE JoinPath(Cwd, PurePath(output.text))

\* Path.is_file, Path.exists: False below a plain file (ENOTDIR is ignored).
IsFilePath(p) == p \in plain
ExistsPath(p) == p \in plain \cup dirs

\* line 140-141: the playlist title is read (a network fetch) to build the
\* argument list of get_and_validate_dir_path.
FetchTitle ==
    /\ pc = "start"
    /\ Logged("title", 0)
    /\ pc' = "resolve_dir"
    /\ UNCHANGED <<inputs, fs, raised, dir_path, i, stats, summaries, outcome,
                   run, prev>>

GetAndValidateDirPath ==
    /\ pc = "resolve_dir"
    /\ IF ~output.given /\ IsFilePath(DefaultRoot)
       THEN /\ Propagate("DownloadingError", "default_root")
            /\ UNCHANGED <<dirs, dir_path>>
       ELSE LET made == IF output.given \/ ExistsPath(DefaultRoot)
                        THEN dirs ELSE dirs \cup {DefaultRoot}
                d == ResolvedPath
            IN  IF IsFilePath(d)
                THEN /\ Propagate("DownloadingError", "dir_path")
                     /\ dirs' = made
                     /\ UNCHANGED dir_path
                ELSE IF d \in made   \* dir_path.exists()
                THEN /\ dirs' = made
                     /\ dir_path' = d
                     /\ pc' = "loop"
                     /\ UNCHANGED raised
                ELSE IF Ancestors(d) \cap plain # {}
                THEN \* mkdir(parents=True) below a plain file
                     /\ Propagate("NotADirectoryError", "mkdir")
                     /\ dirs' = made
                     /\ UNCHANGED dir_path
                ELSE /\ dirs' = made \cup WithAncestors(d)
                     /\ dir_path' = d
                     /\ pc' = "loop"
                     /\ UNCHANGED raised
    /\ UNCHANGED <<inputs, plain, media, i, stats, summaries, log, outcome,
                   run, prev>>

----------------------------------------------------------------------------
(* Media files of the destination directory *)

\* file_path of line 167 and temp_path of line 93, as names inside dir_path
TargetName(vid) == [stem |-> Sanitize(vid.title), ext |-> file_type]
TempName == [stem |-> <<"temp_file">>, ext |-> "mp4"]

\* Mutant: the presence check that never finds the file.
IsFileNever(name) == FALSE

\* Path.is_file on a file of the destination directory (line 168)
IsFile(name) == name \in DOMAIN media

\* Path.unlink(missing_ok=True)
Unlink(m, name) == [n \in DOMAIN m \ {name} |-> m[n]]

\* a write that creates or replaces the file
WriteFile(m, name, size, tagged) ==
    [n \in DOMAIN m \cup {name} |->
        IF n = name THEN [size |-> size, tagged |-> tagged] ELSE m[n]]

\* What an interrupted or failed write may leave at name: nothing new, or a
\* file holding a proper part of the bytes.
PartialWrites(m, name, size) ==
    {m} \cup {WriteFile(m, name, k, FALSE) : k \in 1..(size - 1)}

\* The on-disk size of the tagged file: the stream plus the embedded tags.
TaggedSize(size) == size + 1

----------------------------------------------------------------------------
(* Playlist orchestrator: one iteration of the loop of lines 148-193 *)

NextItem ==
    /\ i' = i + 1
    /\ pc' = "loop"

\* Mutant: the age-restricted item is skipped without recording its URL.
AgeRestrictedUnrecorded(vid) ==
    /\ outcome' = [outcome EXCEPT ![i] = "age_restricted"]
    /\ NextItem
    /\ UNCHANGED <<total_secs, total_bytes, age_restricted_urls>>

\* lines 155-158
AgeRestricted(vid) ==
    /\ age_restricted_urls' = Append(age_restricted_urls, vid.watch_url)
    /\ outcome' = [outcome EXCEPT ![i] = "age_restricted"]
    /\ NextItem
    /\ UNCHANGED <<total_secs, total_bytes>>

\* lines 159-164
Skipped(reason) ==
    /\ outcome' = [outcome EXCEPT ![i] = reason]
    /\ NextItem
    /\ UNCHANGED <<total_secs, total_bytes, age_restricted_urls>>

\* Mutant: the length is accumulated only after the presence check.
AlreadyPresentUncounted(vid) ==
    /\ total_bytes' = total_bytes + media[TargetName(vid)].size
    /\ outcome' = [outcome EXCEPT ![i] = "present"]
    /\ NextItem
    /\ UNCHANGED <<total_secs, age_restricted_urls>>

\* lines 168-173
AlreadyPresent(vid) ==
    /\ total_secs' = total_secs + vid.length
    /\ total_bytes' = total_bytes + media[TargetName(vid)].size
    /\ outcome' = [outcome EXCEPT ![i] = "present"]
    /\ NextItem
    /\ UNCHANGED age_restricted_urls

\* lines 165, 174-176
ToDownload(vid) ==
    /\ total_secs' = total_secs + vid.length
    /\ pc' = "thumbnail"
    /\ UNCHANGED <<i, total_bytes, age_restricted_urls, outcome>>

\* lines 148-176: resolve the streams of item i and decide what to do with it
SelectStream ==
    /\ pc = "loop"
    /\ i <= Len(playlist)
    /\ Logged("streams", i)
    /\ LET vid == playlist[i]
       IN  IF vid.age_restricted THEN AgeRestricted(vid)
           ELSE IF ~vid.has_stream THEN Skipped("no_stream")
           ELSE IF only_audio /\ ~vid.includes_audio_track THEN Skipped("no_audio")
           ELSE IF IsFile(TargetName(vid)) THEN AlreadyPresent(vid)
           ELSE ToDownload(vid)
    /\ UNCHANGED <<inputs, fs, raised, dir_path, bytes_downloaded,
                   vids_downloaded, summaries, run, prev>>

\* Mutant: the target file is opened before the thumbnail is fetched.
FetchThumbnailAfterOpen ==
    /\ pc = "thumbnail"
    /\ Logged("thumbnail", i)
    /\ media' = WriteFile(media, TargetName(playlist[i]), 0, FALSE)
    /\ \/ pc' = "download" /\ UNCHANGED raised
       \/ Propagate("HTTPError", "thumbnail")
       \/ Propagate("KeyboardInterrupt", "thumbnail")
    /\ UNCHANGED <<inputs, dirs, plain, dir_path, i, stats, summaries, outcome,
                   run, prev>>

\* line 177: fetch_url_raw(vid.thumbnail_url); requests raises on a transport
\* error, raise_for_status on a status outside 2xx.
FetchThumbnail ==
    /\ pc = "thumbnail"
    /\ Logged("thumbnail", i)
    /\ \/ pc' = "download" /\ UNCHANGED raised
       \/ Propagate("HTTPError", "thumbnail")
       \/ Propagate("KeyboardInterrupt", "thumbnail")
    /\ UNCHANGED <<inputs, fs, dir_path, i, stats, summaries, outcome, run, prev>>

\* lines 185-188: the handler of download_playlist
OnKeyboardInterrupt(m, vid) == Unlink(m, TargetName(vid))

\* lines 86-87 under the try of line 181
DownloadMp4 ==
    /\ pc = "download"
    /\ file_type = "mp4"
    /\ Logged("download", i)
    /\ LET vid == playlist[i]
           target == TargetName(vid)
       IN  \/ /\ media' = WriteFile(media, target, vid.size, FALSE)
              /\ pc' = "tag"
              /\ UNCHANGED raised
           \/ \E m \in PartialWrites(media, target, vid.size) :
                 /\ media' = OnKeyboardInterrupt(m, vid)
                 /\ Propagate("KeyboardInterrupt", "download")
           \/ \E m \in PartialWrites(media, target, vid.size) :
                 /\ media' = m
                 /\ Propagate("Exception", "download")
    /\ UNCHANGED <<inputs, dirs, plain, dir_path, i, stats, summaries, outcome,
                   run, prev>>

\* lines 94-98: the byte fetch of download_mp3 into the staging file
DownloadMp3 ==
    /\ pc = "download"
    /\ file_type = "mp3"
    /\ Logged("download", i)
    /\ LET vid == playlist[i]
       IN  \/ /\ media' = WriteFile(media, TempName, vid.size, FALSE)
              /\ pc' = "transcode"
              /\ UNCHANGED raised
           \/ \E m \in PartialWrites(media, TempName, vid.size) :
                 /\ media' = OnKeyboardInterrupt(Unlink(m, TempName), vid)
                 /\ Propagate("KeyboardInterrupt", "download")
           \/ \E m \in PartialWrites(media, TempName, vid.size) :
                 /\ media' = m
                 /\ Propagate("Exception", "download")
    /\ UNCHANGED <<inputs, dirs, plain, dir_path, i, stats, summaries, outcome,
                   run, prev>>

\* lines 99-102: AudioFileClip, write_audiofile, temp_path.unlink()
Transcode ==
    /\ pc = "transcode"
    /\ Logged("transcode", i)
    /\ LET vid == playlist[i]
           target == TargetName(vid)
       IN  \/ /\ media' = Unlink(WriteFile(media, target, vid.size, FALSE), TempName)
              /\ pc' = "tag"
              /\ UNCHANGED raised
           \/ \E m \in PartialWrites(media, target, vid.size) :
                 /\ media' = OnKeyboardInterrupt(m, vid)
                 /\ Propagate("KeyboardInterrupt", "transcode")
           \/ \E m \in PartialWrites(media, target, vid.size) :
                 /\ media' = m
                 /\ Propagate("Exception", "transcode")
    /\ UNCHANGED <<inputs, dirs, plain, dir_path, i, stats, summaries, outcome,
                   run, prev>>

\* lines 189-193
Downloaded(file_size) ==
    /\ vids_downloaded' = vids_downloaded + 1
    /\ bytes_downloaded' = bytes_downloaded + file_size
    /\ total_bytes' = total_bytes + file_size
    /\ outcome' = [outcome EXCEPT ![i] = "downloaded"]
    /\ NextItem
    /\ UNCHANGED <<total_secs, age_restricted_urls, raised>>

\* lines 183-193: metadata_functions[file_type](file_path, metadata), then the
\* accounting of the downloaded file
SetMetadata ==
    /\ pc = "tag"
    /\ Logged("tag", i)
    /\ LET vid == playlist[i]
           target == TargetName(vid)
       IN  \/ /\ media' = WriteFile(media, target, TaggedSize(media[target].size), TRUE)
              /\ Downloaded(media'[target].size)
           \/ /\ media' = OnKeyboardInterrupt(media, vid)
              /\ Propagate("KeyboardInterrupt", "tag")
              /\ UNCHANGED <<i, stats, outcome>>
           \/ /\ media' = media
              /\ Propagate("Exception", "tag")
              /\ UNCHANGED <<i, stats, outcome>>
    /\ UNCHANGED <<inputs, dirs, plain, dir_path, summaries, run, prev>>

\* Mutant: the loop ends without the summary.
FinishSilent ==
    /\ pc = "loop"
    /\ i > Len(playlist)
    /\ pc' = "done"
    /\ UNCHANGED <<inputs, fs, raised, dir_path, i, stats, summaries, log, outcome,
                   run, prev>>

\* lines 195-210: the summary, printed once the loop has run out of items
Finish ==
    /\ pc = "loop"
    /\ i > Len(playlist)
    /\ summaries' = summaries + 1
    /\ pc' = "done"
    /\ UNCHANGED <<inputs, fs, raised, dir_path, i, stats, log, outcome, run, prev>>

Ended == pc \in {"done", "exit1", "canceled", "crashed"}

\* get_and_validate_dir_path was called and has raised / has returned
DestinationFailed == raised.at \in {"default_root", "dir_path", "mkdir"}
DestinationResolved == pc \notin {"start", "resolve_dir"} /\ ~DestinationFailed

\* the program is started again with the same arguments
Restart ==
    /\ Ended
    /\ run < MaxRuns
    /\ run' = run + 1
    /\ prev' = [pc |-> pc, resolved |-> DestinationResolved, dir_path |-> dir_path]
    /\ RunStart
    /\ UNCHANGED <<inputs, fs>>

Next ==
    \/ FetchTitle
    \/ GetAndValidateDirPath
    \/ SelectStream
    \/ FetchThumbnail
    \/ DownloadMp4
    \/ DownloadMp3
    \/ Transcode
    \/ SetMetadata
    \/ Finish
    \/ Restart

Spec == Init /\ [][Next]_vars

----------------------------------------------------------------------------
(* Properties *)

\* What the run did for item k
Did(op, k) == \E n \in 1..Len(log) : log[n].op = op /\ log[n].item = k
Items(kinds) == {k \in 1..Len(playlist) : outcome[k] \in kinds}
Occurrences(seq, x) == Cardinality({n \in 1..Len(seq) : seq[n] = x})

RECURSIVE SumOver(_, _)
SumOver(S, f) ==
    IF S = {} THEN 0
    ELSE LET k == CHOOSE x \in S : TRUE IN f[k] + SumOver(S \ {k}, f)

LengthOf == [k \in 1..Len(playlist) |-> playlist[k].length]
SizeOnDisk ==
    [k \in 1..Len(playlist) |->
        IF IsFile(TargetName(playlist[k]))
        THEN media[TargetName(playlist[k])].size ELSE 0]

\* C1: when a KeyboardInterrupt raised during the byte fetch, the transcode or
\* the tag write has left download_playlist, neither the item's target file
\* nor the staging file temp_file.mp4 exists.
C1_NoFileAfterCancel ==
    (pc = "canceled" /\ raised.at \in {"download", "transcode", "tag"})
        => /\ ~IsFile(TargetName(playlist[i]))
           /\ ~IsFile(TempName)

\* C2: when the download or tagging step of an item fails with an error other
\* than a cancellation, the run is aborted and no target file of the item
\* remains in the destination directory.
C2_FailureDeletesTarget ==
    (raised.exc = "Exception" /\ raised.at \in {"download", "transcode", "tag"})
        => /\ pc = "crashed"
           /\ ~IsFile(TargetName(playlist[i]))

\* The step that finds item i already present (lines 168-173)
FindsPresent == pc = "loop" /\ run' = run /\ i' = i + 1 /\ outcome'[i] = "present"

\* C3: an item whose target file exists when it is reached gets no thumbnail
\* fetch, no stream download, no transcode and no tag write; the step leaves
\* the files, the downloaded count and the downloaded bytes as they are and
\* adds the file's size to the total bytes; a run that follows a run that
\* completed downloads nothing.
C3_AlreadyPresentIsCheap ==
    /\ [](\A k \in Items({"present"}) :
            \A op \in {"thumbnail", "download", "transcode", "tag"} : ~Did(op, k))
    /\ [](prev.pc = "done" => vids_downloaded = 0 /\ bytes_downloaded = 0)
    /\ [][FindsPresent =>
            /\ IsFile(TargetName(playlist[i]))
            /\ media' = media
            /\ vids_downloaded' = vids_downloaded
            /\ bytes_downloaded' = bytes_downloaded
            /\ total_bytes' = total_bytes + media[TargetName(playlist[i])].size]_vars

C3_Witness ==
    /\ run = 2 /\ prev.pc = "done" /\ pc = "done"
    /\ Cardinality(Items({"present"})) >= 2
    /\ total_bytes > 0

\* The step that finds item i age-restricted (lines 155-158)
FindsAgeRestricted ==
    pc = "loop" /\ run' = run /\ i <= Len(playlist) /\ playlist[i].age_restricted

C5_SummaryAlways ==
    pc \in {"done", "canceled"} => summaries = 1

\* C5 amended: the summary is printed exactly once when the loop runs to
\* completion, and not at all when a cancellation (or any other exception)
\* leaves download_playlist.
C5_SummaryOnCompletionOnly ==
    /\ pc = "done" => summaries = 1
    /\ pc # "done" => summaries = 0

C5_Witness ==
    /\ pc = "canceled"
    /\ raised.at \in {"download", "transcode", "tag"}
    /\ vids_downloaded >= 1
    /\ summaries = 0

\* C6: when destination resolution raises DownloadingError, no network
\* activity (playlist title included) has happened in the run.
C6_NoNetworkBeforeDestinationError ==
    raised.exc = "DownloadingError" => log = <<>>

\* C7: for an output argument "~" + r the returned directory is the home
\* directory followed by the names of r, so it lies inside the home directory.
C7_TildeIsHome ==
    (DestinationResolved /\ output.given /\ StartsWithTilde(output.text))
        => /\ dir_path = Home \o SplitNames(RemovePrefixTilde(output.text), <<>>)
           /\ SubSeq(dir_path, 1, Len(Home)) = Home

\* C8: get_and_validate_dir_path either raises the destination error or
\* returns an existing directory; it raises exactly when the resolved path, or
\* with output unset the default root, is a plain file; after a call that
\* succeeded the next call succeeds with the same path.
C8_DestinationErrorOrDirectory ==
    pc \notin {"start", "resolve_dir"} =>
        /\ DestinationFailed => raised.exc = "DownloadingError"
        /\ ~DestinationFailed => dir_path \in dirs
        /\ DestinationFailed <=>
              (\/ ~output.given /\ IsFilePath(DefaultRoot)
               \/ IsFilePath(ResolvedPath))
        /\ prev.resolved => ~DestinationFailed /\ dir_path = prev.dir_path

\* The scenario of the three items: an audio stream of 125 s, an
\* age-restricted video, a stream without audio track.
Scenario ==
    <<Video(1, <<"s">>, 125, 3, FALSE, TRUE, TRUE),
      Video(2, <<"r">>, 30, 2, TRUE, TRUE, TRUE),
      Video(3, <<"t">>, 7, 2, FALSE, TRUE, FALSE)>>

\* C9: downloaded bytes never exceed total bytes, downloaded videos never
\* exceed the playlist length; when the loop has completed, the statistics are
\* the count of the downloaded items, the summed lengths of the downloaded and
\* already present items, the summed sizes on disk of the downloaded files,
\* and that plus the sizes of the already present files; the scenario gives
\* one download, one age-restricted URL and 125 s.
C9_Statistics ==
    /\ bytes_downloaded <= total_bytes
    /\ vids_downloaded <= Len(playlist)
    /\ pc = "done" =>
        /\ vids_downloaded = Cardinality(Items({"downloaded"}))
        /\ total_secs = SumOver(Items({"downloaded", "present"}), LengthOf)
        /\ bytes_downloaded = SumOver(Items({"downloaded"}), SizeOnDisk)
        /\ total_bytes = bytes_downloaded + SumOver(Items({"present"}), SizeOnDisk)
    /\ (pc = "done" /\ run = 1 /\ only_audio /\ playlist = Scenario) =>
        /\ vids_downloaded = 1
        /\ age_restricted_urls = <<playlist[2].watch_url>>
        /\ outcome[3] = "no_audio"
        /\ total_secs = 125

C9_Witness ==
    /\ pc = "done"
    /\ Items({"downloaded"}) # {}
    /\ Items({"present"}) # {}
    /\ Items({"age_restricted", "no_stream", "no_audio"}) # {}
    /\ bytes_downloaded < total_bytes

\* C10: when the thumbnail fetch of an item fails, the run ends with the
\* error, nothing of the item's stream was fetched or written, the target
\* file does not exist, no later item is taken up, and the step has left every
\* file as it was.
C10_ThumbnailBeforeBytes ==
    /\ []((raised.exc = "HTTPError" /\ raised.at = "thumbnail") =>
            /\ pc = "crashed"
            /\ \A op \in {"download", "transcode", "tag"} : ~Did(op, i)
            /\ ~IsFile(TargetName(playlist[i]))
            /\ \A k \in i..Len(playlist) : outcome[k] = "pending"
            /\ \A n \in 1..Len(log) : log[n].item <= i)
    /\ [][pc = "thumbnail" => fs' = fs]_vars

C10_Witness ==
    /\ pc = "crashed"
    /\ raised.exc = "HTTPError"
    /\ i = 2
    /\ outcome[1] = "downloaded"
    /\ Len(playlist) = 3

====
